---------------------------- MODULE Spec2Model ----------------------------
(* Model of the class-based VLESS-over-WebSocket gateway of src/index.js   *)
(* (class VLESSProxy, lines 349-557): admission of upgrade requests, the   *)
(* per-connection 'message' / 'close' handlers, the destination socket's   *)
(* handlers and the tunnel header parser.                                  *)
(*                                                                         *)
(* Buffers are sequences of bytes (0..255).  JavaScript strings are        *)
(* sequences of character codes, so that a rendering (hex, dotted decimal) *)
(* is computed and can differ from the text it is compared with.           *)
EXTENDS Integers, Sequences, FiniteSets, TLC

VARIABLES
    envUUID,          \* CONFIG.UUID = process.env.UUID, a string
    running,          \* the Node process is alive
    connectionCount,  \* VLESSProxy.connectionCount
    responses,        \* status written for each upgrade request, in order
    sessions,         \* one record per WebSocket handed to handleWebSocketConnection
    input,            \* the buffer handed to the function under study
    result            \* what that function returned or threw

vars == <<envUUID, running, connectionCount, responses, sessions, input, result>>

\* the variables only the codec specifications change
codecVars == <<input, result>>

-----------------------------------------------------------------------------
(* Bounds of the model *)

\* CONFIG.MAX_CONNECTIONS is 100 in the source (line 359); the ceiling is
\* scaled down so that the model reaches it.
MAX_CONNECTIONS ==
    2

\* Spec explores admission: several connections, few messages.
\* upgrade requests that arrive (admitted or refused)
MaxUpgrades ==
    3

\* client messages delivered, summed over all sessions
MaxMessages ==
    1

\* destination chunks forwarded to clients, summed over all sessions
MaxChunks ==
    1

\* SpecSession explores one connection in depth: the same handlers, more
\* messages.
SessionUpgrades ==
    1

SessionMessages ==
    2

SessionChunks ==
    1

\* SpecRelay explores the destination-to-client direction of one connection.
RelayUpgrades ==
    1

RelayMessages ==
    1

RelayChunks ==
    2

\* SpecAdmission explores many upgrade requests against connections whose
\* destinations connect, fail or end but send no data: enough requests to fill
\* the ceiling, be refused, be admitted again after a close and be refused
\* again.
AdmissionUpgrades ==
    MAX_CONNECTIONS + 3

AdmissionMessages ==
    1

\* SpecHeader hands one buffer to parseVLESSHeader and, as a message, to one
\* connection.
HeaderUpgrades ==
    1

HeaderMessages ==
    1

-----------------------------------------------------------------------------
(* Strings and buffers *)

Min(a, b) ==
    IF a < b THEN a ELSE b

\* Buffer.prototype.slice(start, end): 0-based, end exclusive, clamped
Slice(buf, start, end) ==
    SubSeq(buf, start + 1, Min(end, Len(buf)))

\* n copies of the character / byte c
Rep(c, n) ==
    [i \in 1..n |-> c]

\* character code of one lower-case hexadecimal digit
HexDigit(d) ==
    IF d < 10 THEN 48 + d ELSE 87 + d

\* Buffer.prototype.toString('hex')
RECURSIVE ToHex(_)
ToHex(buf) ==
    IF buf = <<>> THEN <<>>
    ELSE <<HexDigit(Head(buf) \div 16), HexDigit(Head(buf) % 16)>> \o ToHex(Tail(buf))

\* decimal rendering of a byte, as Array.prototype.join renders a number
RECURSIVE ToDecimal(_)
ToDecimal(n) ==
    IF n < 10 THEN <<48 + n>> ELSE ToDecimal(n \div 10) \o <<48 + (n % 10)>>

\* Array.prototype.join(sep) over already rendered pieces
RECURSIVE Join(_, _)
Join(pieces, sep) ==
    IF pieces = <<>> THEN <<>>
    ELSE IF Len(pieces) = 1 THEN pieces[1]
    ELSE pieces[1] \o sep \o Join(Tail(pieces), sep)

\* String.prototype.match(/.{1,4}/g): greedy groups of up to four characters
RECURSIVE Groups4(_)
Groups4(str) ==
    IF str = <<>> THEN <<>>
    ELSE <<SubSeq(str, 1, Min(4, Len(str)))>> \o Groups4(SubSeq(str, Min(4, Len(str)) + 1, Len(str)))

\* what the byte at position i contributes to toString('utf8'): itself when
\* ASCII, a two-byte character when it leads one, nothing when the preceding
\* lead byte consumed it, U+FFFD otherwise
Utf8Piece(buf, i) ==
    LET b == buf[i]
    IN  IF b < 128 THEN <<b>>
        ELSE IF /\ b >= 194 /\ b <= 223
                /\ i < Len(buf) /\ buf[i + 1] >= 128 /\ buf[i + 1] <= 191
             THEN <<(b - 192) * 64 + (buf[i + 1] - 128)>>
        ELSE IF /\ b >= 128 /\ b <= 191
                /\ i > 1 /\ buf[i - 1] >= 194 /\ buf[i - 1] <= 223
             THEN <<>>
        ELSE <<65533>>

\* the pieces of positions from..to in order, computed by halving the range
RECURSIVE Utf8DecodeRange(_, _, _)
Utf8DecodeRange(buf, from, to) ==
    IF from > to THEN <<>>
    ELSE IF from = to THEN Utf8Piece(buf, from)
    ELSE LET mid == (from + to) \div 2
         IN  Utf8DecodeRange(buf, from, mid) \o Utf8DecodeRange(buf, mid + 1, to)

\* Buffer.prototype.toString('utf8'): one- and two-byte sequences are decoded,
\* any other byte is replaced by U+FFFD
Utf8Decode(buf) ==
    Utf8DecodeRange(buf, 1, Len(buf))

-----------------------------------------------------------------------------
(* parseVLESSHeader, src/index.js lines 474-512 *)

\* nothing was decoded or encoded yet
NoResult ==
    [ok |-> FALSE, error |-> "none"]

ParseError(msg) ==
    [ok |-> FALSE, error |-> msg]

\* parseVLESSHeader with the length test written for the 20 fixed bytes only
parseVLESSHeader_Min20(buffer) ==
    IF Len(buffer) < 20 THEN ParseError("Insufficient header length")
    ELSE
      LET uuid == ToHex(Slice(buffer, 1, 17))
          addressType == buffer[20]
          addressLength ==
              CASE addressType = 1 -> 4
                [] addressType = 3 -> IF Len(buffer) >= 21 THEN buffer[21] ELSE 0
                [] addressType = 4 -> 16
                [] OTHER -> 0
          portOffset == 20 + addressLength
      IN  IF addressType \notin {1, 3, 4} THEN ParseError("Unsupported address type")
          ELSE IF portOffset + 2 > Len(buffer) THEN ParseError("ERR_OUT_OF_RANGE")
          ELSE [ok |-> TRUE,
                uuid |-> uuid,
                targetHost |-> <<>>,
                targetPort |-> buffer[portOffset + 1] * 256 + buffer[portOffset + 2],
                rawData |-> Slice(buffer, 22 + addressLength, Len(buffer))]

parseVLESSHeader(buffer) ==
    IF Len(buffer) < 24 THEN ParseError("Insufficient header length")
    ELSE
      LET uuid == ToHex(Slice(buffer, 1, 17))
          addressType == buffer[20]
          addressLength ==
              CASE addressType = 1 -> 4
                [] addressType = 3 -> buffer[21]
                [] addressType = 4 -> 16
                [] OTHER -> 0
          targetHost ==
              CASE addressType = 1 ->
                     Join([i \in 1..4 |-> ToDecimal(buffer[20 + i])], <<46>>)
                [] addressType = 3 ->
                     Utf8Decode(Slice(buffer, 21, 21 + addressLength))
                [] addressType = 4 ->
                     Join(Groups4(ToHex(Slice(buffer, 20, 36))), <<58>>)
                [] OTHER -> <<>>
          portOffset == 20 + addressLength
      IN  IF addressType \notin {1, 3, 4} THEN ParseError("Unsupported address type")
          \* readUInt16BE throws a RangeError when offset + 2 > length
          ELSE IF portOffset + 2 > Len(buffer) THEN ParseError("ERR_OUT_OF_RANGE")
          ELSE [ok |-> TRUE,
                uuid |-> uuid,
                targetHost |-> targetHost,
                targetPort |-> buffer[portOffset + 1] * 256 + buffer[portOffset + 2],
                rawData |-> Slice(buffer, 22 + addressLength, Len(buffer))]

-----------------------------------------------------------------------------
(* parseWebSocketFrame and constructWebSocketFrame, src/index.js lines 241-300 *)

\* a ^ b on bytes
RECURSIVE BitXor(_, _, _)
BitXor(a, b, bits) ==
    IF bits = 0 THEN 0
    ELSE ((a + b) % 2) + 2 * BitXor(a \div 2, b \div 2, bits - 1)

\* buffer[i] with a 0-based index; reading past the end gives undefined, which
\* the bit operators of lines 245-268 treat as 0
ByteAt(buffer, i) ==
    IF i < Len(buffer) THEN buffer[i + 1] ELSE 0

\* the UTF-8 bytes of one character below U+10000
Utf8Char(ch) ==
    IF ch < 128 THEN <<ch>>
    ELSE IF ch < 2048 THEN <<192 + (ch \div 64), 128 + (ch % 64)>>
    ELSE <<224 + (ch \div 4096), 128 + ((ch \div 64) % 64), 128 + (ch % 64)>>

\* Buffer.from(message, 'utf8'): the characters' encodings in order, computed
\* by halving the string
RECURSIVE Utf8Encode(_)
Utf8Encode(str) ==
    IF str = <<>> THEN <<>>
    ELSE IF Len(str) = 1 THEN Utf8Char(str[1])
    ELSE LET half == Len(str) \div 2
         IN  Utf8Encode(SubSeq(str, 1, half)) \o Utf8Encode(SubSeq(str, half + 1, Len(str)))

FrameError(msg) ==
    [ok |-> FALSE, error |-> msg]

\* lines 262-269: mask key, payload slice and the unmasking loop
Unmask(buffer, payloadLength) ==
    LET maskingKey == Slice(buffer, 2, 6)
        payloadData == Slice(buffer, 6, 6 + payloadLength)
    IN  [i \in 1..payloadLength |->
           BitXor(ByteAt(payloadData, i - 1), ByteAt(maskingKey, (i - 1) % 4), 8)]

\* parseWebSocketFrame accepting binary frames as well
parseWebSocketFrame_TextOrBinary(buffer) ==
    LET firstByte == ByteAt(buffer, 0)
        secondByte == ByteAt(buffer, 1)
    IN  IF firstByte < 128 THEN FrameError("Fragmented frames are not supported")
        ELSE IF firstByte % 16 \notin {1, 2} THEN FrameError("Only text frames are supported")
        ELSE IF secondByte < 128 THEN FrameError("Frames must be masked")
        ELSE [ok |-> TRUE, message |-> Utf8Decode(Unmask(buffer, secondByte % 128))]

\* parseWebSocketFrame without the test of the mask bit
parseWebSocketFrame_NoMaskTest(buffer) ==
    LET firstByte == ByteAt(buffer, 0)
        secondByte == ByteAt(buffer, 1)
    IN  IF firstByte < 128 THEN FrameError("Fragmented frames are not supported")
        ELSE IF firstByte % 16 # 1 THEN FrameError("Only text frames are supported")
        ELSE [ok |-> TRUE, message |-> Utf8Decode(Unmask(buffer, secondByte % 128))]

\* parseWebSocketFrame, lines 241-272
parseWebSocketFrame(buffer) ==
    LET firstByte == ByteAt(buffer, 0)
        secondByte == ByteAt(buffer, 1)
        isFinalFrame == firstByte >= 128
        opcode == firstByte % 16
        isMasked == secondByte >= 128
        payloadLength == secondByte % 128
    IN  IF ~isFinalFrame THEN FrameError("Fragmented frames are not supported")
        ELSE IF opcode # 1 THEN FrameError("Only text frames are supported")
        ELSE IF ~isMasked THEN FrameError("Frames must be masked")
        ELSE [ok |-> TRUE, message |-> Utf8Decode(Unmask(buffer, payloadLength))]

\* constructWebSocketFrame, lines 279-300
constructWebSocketFrame(message) ==
    LET messageBuffer == Utf8Encode(message)
        length == Len(messageBuffer)
    IN  IF length <= 125
        THEN [ok |-> TRUE, frame |-> <<129, length>> \o messageBuffer]
        ELSE IF length <= 65535
        THEN [ok |-> TRUE,
              frame |-> <<129, 126, length \div 256, length % 256>> \o messageBuffer]
        ELSE FrameError("Message too long")

\* decoding what encoding produced
EncodeThenDecode(message) ==
    LET encoded == constructWebSocketFrame(message)
    IN  IF encoded.ok THEN parseWebSocketFrame(encoded.frame) ELSE encoded

-----------------------------------------------------------------------------
(* Inputs *)

\* the identity 11111111-1111-4111-8111-111111111111 as 16 raw bytes
IdBytes ==
    Rep(17, 6) \o <<65, 17, 129, 17>> \o Rep(17, 6)

\* the same identity as the text an operator puts in the UUID variable
DashedUUID ==
    Rep(49, 8) \o <<45>> \o Rep(49, 4) \o <<45, 52>> \o Rep(49, 3)
      \o <<45, 56>> \o Rep(49, 3) \o <<45>> \o Rep(49, 12)

\* the same identity written without dashes
PlainUUID ==
    Rep(49, 12) \o <<52>> \o Rep(49, 3) \o <<56>> \o Rep(49, 15)

\* the text "93.184.216.34"
ExampleHost ==
    <<57, 51, 46, 49, 56, 52, 46, 50, 49, 54, 46, 51, 52>>

\* payload "GET"
ExamplePayload ==
    <<71, 69, 84>>

\* header: version 0, identity, no options, command TCP, IPv4 93.184.216.34:80, payload
HdrIPv4 ==
    <<0>> \o IdBytes \o <<0, 1, 1>> \o <<93, 184, 216, 34>> \o <<0, 80>> \o ExamplePayload

\* header carrying another identity (all bytes 0x22), same destination
HdrOtherId ==
    <<0>> \o Rep(34, 16) \o <<0, 1, 1>> \o <<93, 184, 216, 34>> \o <<0, 80>> \o ExamplePayload

\* header: domain "a", port 443, empty payload
HdrDomain ==
    <<0>> \o IdBytes \o <<0, 1, 3>> \o <<1, 97>> \o <<1, 187>>

\* a chunk of tunnelled data sent after the header
DataChunk ==
    <<104, 105>>

Messages ==
    {HdrIPv4, HdrOtherId, HdrDomain, DataChunk}

\* the text "example.com"
ExampleDomain ==
    <<101, 120, 97, 109, 112, 108, 101, 46, 99, 111, 109>>

\* the text "2001:0db8:0000:0000:0000:0000:0000:0001"
ExampleIPv6Text ==
    <<50, 48, 48, 49, 58, 48, 100, 98, 56>>
      \o Rep(58, 1) \o Rep(48, 4) \o Rep(58, 1) \o Rep(48, 4) \o Rep(58, 1) \o Rep(48, 4)
      \o Rep(58, 1) \o Rep(48, 4) \o Rep(58, 1) \o Rep(48, 4) \o Rep(58, 1) \o <<48, 48, 48, 49>>

\* destinations a client can name: address type, the bytes of the address
\* field, and the host text they stand for
Destinations ==
    {[atype |-> 1, addr |-> <<93, 184, 216, 34>>, host |-> ExampleHost],
     [atype |-> 1, addr |-> <<0, 0, 0, 0>>, host |-> <<48, 46, 48, 46, 48, 46, 48>>],
     [atype |-> 3, addr |-> <<11>> \o ExampleDomain, host |-> ExampleDomain],
     [atype |-> 3, addr |-> <<1, 97>>, host |-> <<97>>],
     [atype |-> 4, addr |-> <<32, 1, 13, 184>> \o Rep(0, 11) \o <<1>>, host |-> ExampleIPv6Text]}

HeaderPorts ==
    {0, 80, 443, 65535}

HeaderPayloads ==
    {<<>>, ExamplePayload}

\* what a client puts in a header
HeaderCases ==
    {[dest |-> d, port |-> p, payload |-> pl] :
        d \in Destinations, p \in HeaderPorts, pl \in HeaderPayloads}

\* the header of section 4.3: 20 fixed bytes, address field, big-endian port,
\* payload
BuildHeader(t) ==
    <<0>> \o IdBytes \o <<0, 1, t.dest.atype>> \o t.dest.addr
      \o <<t.port \div 256, t.port % 256>> \o t.payload

\* a header with an address type the parser does not know
HdrUnknownType ==
    <<0>> \o IdBytes \o <<0, 1, 2>> \o <<93, 184, 216, 34>> \o <<0, 80>> \o ExamplePayload

\* every proper prefix of the port-80 headers and of the unknown-type header
TruncatedHeaders ==
    UNION {{SubSeq(h, 1, n) : n \in 0..(Len(h) - 1)} :
        h \in {BuildHeader(t) : t \in {c \in HeaderCases : c.port = 80 /\ c.payload = <<>>}}
               \cup {HdrUnknownType}}

HeaderInputs ==
    {BuildHeader(t) : t \in HeaderCases} \cup TruncatedHeaders \cup {HdrUnknownType}

\* text messages of the lengths the codec distinguishes: 'a' repeated
MessageLengths ==
    {0, 1, 125, 126, 65535}

MessageInputs ==
    {Rep(97, n) : n \in MessageLengths}

MaskKey ==
    <<55, 250, 33, 61>>

\* payload[i] XOR key[i mod 4], as a client masks
MaskWith(key, payload) ==
    [i \in 1..Len(payload) |-> BitXor(payload[i], key[((i - 1) % 4) + 1], 8)]

\* a frame with a 7-bit length: first byte, mask bit and length, key when
\* masked, payload
SmallFrame(fin, opcode, masked, payload) ==
    <<fin * 128 + opcode, (IF masked THEN 128 ELSE 0) + Len(payload)>>
      \o (IF masked THEN MaskKey \o MaskWith(MaskKey, payload) ELSE payload)

\* a final masked text frame with the 126 marker and a 16-bit length
ExtendedFrame(payload) ==
    <<129, 128 + 126, Len(payload) \div 256, Len(payload) % 256>>
      \o MaskKey \o MaskWith(MaskKey, payload)

Opcodes ==
    {0, 1, 2, 8, 9, 10}

FramePayloads ==
    {<<>>, DataChunk, ExamplePayload}

\* payloads of 126 and 300 bytes for the 16-bit length
ExtendedPayloads ==
    {Rep(97, 126), Rep(98, 300)}

FrameInputs ==
    {SmallFrame(fin, op, masked, pl) :
        fin \in {0, 1}, op \in Opcodes, masked \in BOOLEAN, pl \in FramePayloads}
      \cup {ExtendedFrame(pl) : pl \in ExtendedPayloads}

\* a chunk a destination sends back: "OK"
DestChunks ==
    {<<79, 75>>}

\* two different chunks, to tell their order: "OK" and "!"
RelayChunkSet ==
    {<<79, 75>>, <<33>>}

-----------------------------------------------------------------------------
(* Sessions *)

\* state of handleWebSocketConnection's closure right after it returns
NewSession ==
    [ws |-> "OPEN",            \* ws.readyState
     closeArgs |-> <<>>,       \* arguments of the ws.close() call that took effect
     targetSocket |-> 0,       \* closure variable targetSocket; 0 is null
     conns |-> <<>>,           \* sockets made by net.createConnection, in order
     decodes |-> 0,            \* calls of parseVLESSHeader
     sent |-> <<>>]            \* chunks passed to ws.send while the socket was open

\* a socket just returned by net.createConnection
NewConn(req) ==
    [host |-> req.targetHost,
     port |-> req.targetPort,
     rawData |-> req.rawData,  \* captured by the connect callback
     state |-> "connecting",
     timedOut |-> FALSE,      \* 'timeout' was emitted before the connection was established
     written |-> <<>>]

\* WebSocket.close(code, reason): starts the closing handshake of an open socket
CloseWs(sess, args) ==
    IF sess.ws = "OPEN" THEN [sess EXCEPT !.ws = "CLOSING", !.closeArgs = args]
    ELSE sess

\* net.Socket.write(chunk): queued while connecting, dropped once the socket is gone
SocketWrite(conn, chunk) ==
    IF conn.state \in {"connecting", "open"}
    THEN [conn EXCEPT !.written = Append(@, chunk)]
    ELSE conn

\* net.Socket.destroy()
SocketDestroy(conn) ==
    IF conn.state \in {"connecting", "open"}
    THEN [conn EXCEPT !.state = "destroyed"]
    ELSE conn

RECURSIVE SumOver(_, _)
SumOver(f, n) ==
    IF n = 0 THEN 0 ELSE f[n] + SumOver(f, n - 1)

TotalDecodes ==
    SumOver([s \in 1..Len(sessions) |-> sessions[s].decodes], Len(sessions))

TotalSent ==
    SumOver([s \in 1..Len(sessions) |-> Len(sessions[s].sent)], Len(sessions))

Live(s) ==
    sessions[s].ws \in {"OPEN", "CLOSING"}

-----------------------------------------------------------------------------
(* Lifecycle states of the specification, read off the session's sockets *)

Closed(s) ==
    sessions[s].ws = "CLOSED"

Closing(s) ==
    sessions[s].ws = "CLOSING"

Relaying(s) ==
    /\ sessions[s].ws = "OPEN"
    /\ \E c \in 1..Len(sessions[s].conns) : sessions[s].conns[c].state = "open"

Handshaking(s) ==
    /\ sessions[s].ws = "OPEN"
    /\ \A c \in 1..Len(sessions[s].conns) : sessions[s].conns[c].state # "open"

-----------------------------------------------------------------------------
(* Actions *)

Init ==
    /\ envUUID \in {DashedUUID, PlainUUID}
    /\ running = TRUE
    /\ connectionCount = 0
    /\ responses = <<>>
    /\ sessions = <<>>
    /\ input = <<>>
    /\ result = NoResult

\* handleWebSocketUpgrade with the ceiling test written > instead of >=
handleWebSocketUpgrade_OffByOne ==
    /\ running
    /\ IF connectionCount > MAX_CONNECTIONS
       THEN /\ responses' = Append(responses, 429)
            /\ UNCHANGED <<connectionCount, sessions>>
       ELSE /\ responses' = Append(responses, 101)
            /\ connectionCount' = connectionCount + 1
            /\ sessions' = Append(sessions, NewSession)
    /\ UNCHANGED <<envUUID, running, codecVars>>

\* handleWebSocketUpgrade, lines 402-414, for a request that is a valid
\* WebSocket handshake: handleUpgrade of the ws library then answers 101 and
\* calls the callback in the same tick.
handleWebSocketUpgrade ==
    /\ running
    /\ IF connectionCount >= MAX_CONNECTIONS
       THEN /\ responses' = Append(responses, 429)
            /\ UNCHANGED <<connectionCount, sessions>>
       ELSE /\ responses' = Append(responses, 101)
            /\ connectionCount' = connectionCount + 1
            /\ sessions' = Append(sessions, NewSession)
    /\ UNCHANGED <<envUUID, running, codecVars>>

\* ws.on('message'), lines 422-460.  The ws library keeps emitting 'message'
\* after close() was called, until the connection is closed.
OnMessage(s, data) ==
    /\ running
    /\ Live(s)
    /\ LET sess == [sessions[s] EXCEPT !.decodes = @ + 1]
           req == parseVLESSHeader(data)
       IN  sessions' = [sessions EXCEPT ![s] =
             IF ~req.ok THEN CloseWs(sess, <<1011, "Processing Error">>)
             ELSE IF req.uuid # envUUID THEN CloseWs(sess, <<1008, "Invalid UUID">>)
             ELSE [sess EXCEPT !.conns = Append(@, NewConn(req)),
                               !.targetSocket = Len(sess.conns) + 1]]
    /\ UNCHANGED <<envUUID, running, connectionCount, responses, codecVars>>

\* connect callback of net.createConnection, lines 438-440: writes the payload
\* of its own header to whatever socket the closure variable names now
OnTargetConnect(s, c) ==
    /\ running
    /\ c \in 1..Len(sessions[s].conns)
    /\ sessions[s].conns[c].state = "connecting"
    /\ LET sess == sessions[s]
           opened == [sess.conns EXCEPT ![c].state = "open"]
           t == sess.targetSocket
       IN  sessions' = [sessions EXCEPT ![s].conns =
             [opened EXCEPT ![t] = SocketWrite(opened[t], sess.conns[c].rawData)]]
    /\ UNCHANGED <<envUUID, running, connectionCount, responses, codecVars>>

\* the 'data' handler putting the chunk in front of what was sent before
OnTargetData_Prepend(s, c, chunk) ==
    /\ running
    /\ c \in 1..Len(sessions[s].conns)
    /\ sessions[s].conns[c].state = "open"
    /\ sessions' = [sessions EXCEPT ![s].sent =
         IF sessions[s].ws = "OPEN" THEN <<chunk>> \o @ ELSE @]
    /\ UNCHANGED <<envUUID, running, connectionCount, responses, codecVars>>

\* targetSocket.on('data'), lines 443-445: ws.send drops the chunk unless the
\* WebSocket is open
OnTargetData(s, c, chunk) ==
    /\ running
    /\ c \in 1..Len(sessions[s].conns)
    /\ sessions[s].conns[c].state = "open"
    /\ sessions' = [sessions EXCEPT ![s].sent =
         IF sessions[s].ws = "OPEN" THEN Append(@, chunk) ELSE @]
    /\ UNCHANGED <<envUUID, running, connectionCount, responses, codecVars>>

\* the 'error' handler releasing the session's slot itself
OnTargetError_AlsoReleases(s, c) ==
    /\ running
    /\ c \in 1..Len(sessions[s].conns)
    /\ sessions[s].conns[c].state \in {"connecting", "open"}
    /\ connectionCount' = connectionCount - 1
    /\ sessions' = [sessions EXCEPT ![s] =
         CloseWs([sessions[s] EXCEPT !.conns[c].state = "error"],
                 <<1011, "Connection Error">>)]
    /\ UNCHANGED <<envUUID, running, responses, codecVars>>

\* targetSocket.on('error'), lines 448-451: connect failure or an error of an
\* established socket.  The 'close' event that follows calls ws.close()
\* again, which does nothing to a WebSocket that is already closing.
OnTargetError(s, c) ==
    /\ running
    /\ c \in 1..Len(sessions[s].conns)
    /\ sessions[s].conns[c].state \in {"connecting", "open"}
    /\ sessions' = [sessions EXCEPT ![s] =
         CloseWs([sessions[s] EXCEPT !.conns[c].state = "error"],
                 <<1011, "Connection Error">>)]
    /\ UNCHANGED <<envUUID, running, connectionCount, responses, codecVars>>

\* targetSocket.on('close'), lines 453-455, after the destination ended the stream
OnTargetClose(s, c) ==
    /\ running
    /\ c \in 1..Len(sessions[s].conns)
    /\ sessions[s].conns[c].state = "open"
    /\ sessions' = [sessions EXCEPT ![s] =
         CloseWs([sessions[s] EXCEPT !.conns[c].state = "closed"], <<>>)]
    /\ UNCHANGED <<envUUID, running, connectionCount, responses, codecVars>>

\* the socket's timer (createConnection option timeout, line 437) fires while
\* the connection is still being established: the 'timeout' event has no
\* listener in lines 434-455, so nothing is closed
OnTargetTimeout(s, c) ==
    /\ running
    /\ c \in 1..Len(sessions[s].conns)
    /\ sessions[s].conns[c].state = "connecting"
    /\ ~sessions[s].conns[c].timedOut
    /\ sessions' = [sessions EXCEPT ![s].conns[c].timedOut = TRUE]
    /\ UNCHANGED <<envUUID, running, connectionCount, responses, codecVars>>

\* the 'close' handler with the decrement moved inside the targetSocket test
OnClose_ReleaseOnlyWithTarget(s) ==
    /\ running
    /\ Live(s)
    /\ connectionCount' =
         IF sessions[s].targetSocket # 0 THEN connectionCount - 1 ELSE connectionCount
    /\ LET sess == sessions[s]
           t == sess.targetSocket
       IN  sessions' = [sessions EXCEPT ![s] =
             [sess EXCEPT !.ws = "CLOSED",
                          !.conns = IF t # 0
                                    THEN [sess.conns EXCEPT ![t] = SocketDestroy(@)]
                                    ELSE sess.conns]]
    /\ UNCHANGED <<envUUID, running, responses, codecVars>>

\* ws.on('close'), lines 463-468: the client closed the connection, or the
\* closing handshake started by ws.close() finished
OnClose(s) ==
    /\ running
    /\ Live(s)
    /\ connectionCount' = connectionCount - 1
    /\ LET sess == sessions[s]
           t == sess.targetSocket
       IN  sessions' = [sessions EXCEPT ![s] =
             [sess EXCEPT !.ws = "CLOSED",
                          !.conns = IF t # 0
                                    THEN [sess.conns EXCEPT ![t] = SocketDestroy(@)]
                                    ELSE sess.conns]]
    /\ UNCHANGED <<envUUID, running, responses, codecVars>>

\* the WebSocket emits 'error' (a frame the ws receiver rejects).  Lines
\* 419-469 register no 'error' listener, so the emit throws and the uncaught
\* exception ends the process.
OnWsError(s) ==
    /\ running
    /\ Live(s)
    /\ running' = FALSE
    /\ UNCHANGED <<envUUID, connectionCount, responses, sessions, codecVars>>

\* one step of any handler, with at most u upgrade requests, m client
\* messages and k forwarded destination chunks (drawn from chunks) in a
\* behaviour
Step(u, m, k, chunks) ==
    \/ Len(responses) < u /\ handleWebSocketUpgrade
    \/ \E s \in 1..Len(sessions) : \E data \in Messages :
          TotalDecodes < m /\ OnMessage(s, data)
    \/ \E s \in 1..Len(sessions) : \E c \in 1..Len(sessions[s].conns) :
          OnTargetConnect(s, c)
    \/ \E s \in 1..Len(sessions) : \E c \in 1..Len(sessions[s].conns) :
          \E chunk \in chunks : TotalSent < k /\ OnTargetData(s, c, chunk)
    \/ \E s \in 1..Len(sessions) : \E c \in 1..Len(sessions[s].conns) :
          OnTargetError(s, c)
    \/ \E s \in 1..Len(sessions) : \E c \in 1..Len(sessions[s].conns) :
          OnTargetClose(s, c)
    \/ \E s \in 1..Len(sessions) : \E c \in 1..Len(sessions[s].conns) :
          OnTargetTimeout(s, c)
    \/ \E s \in 1..Len(sessions) : OnClose(s)
    \/ \E s \in 1..Len(sessions) : OnWsError(s)

Next ==
    Step(MaxUpgrades, MaxMessages, MaxChunks, DestChunks)

Spec ==
    Init /\ [][Next]_vars

NextSession ==
    Step(SessionUpgrades, SessionMessages, SessionChunks, DestChunks)

SpecSession ==
    Init /\ [][NextSession]_vars

NextAdmission ==
    \/ Len(responses) < AdmissionUpgrades /\ handleWebSocketUpgrade
    \/ \E s \in 1..Len(sessions) : \E data \in Messages :
          TotalDecodes < AdmissionMessages /\ OnMessage(s, data)
    \/ \E s \in 1..Len(sessions) : \E c \in 1..Len(sessions[s].conns) :
          OnTargetConnect(s, c)
    \/ \E s \in 1..Len(sessions) : \E c \in 1..Len(sessions[s].conns) :
          OnTargetError(s, c)
    \/ \E s \in 1..Len(sessions) : \E c \in 1..Len(sessions[s].conns) :
          OnTargetClose(s, c)
    \/ \E s \in 1..Len(sessions) : OnClose(s)

SpecAdmission ==
    Init /\ [][NextAdmission]_vars

\* the buffer under study is decoded (the call of line 425 taken alone)
DecodeHeader ==
    /\ result = NoResult
    /\ result' = parseVLESSHeader(input)
    /\ UNCHANGED <<envUUID, running, connectionCount, responses, sessions, input>>

InitHeader ==
    /\ envUUID \in {DashedUUID, PlainUUID}
    /\ running = TRUE
    /\ connectionCount = 0
    /\ responses = <<>>
    /\ sessions = <<>>
    /\ input \in HeaderInputs
    /\ result = NoResult

NextHeader ==
    \/ DecodeHeader
    \/ Len(responses) < HeaderUpgrades /\ handleWebSocketUpgrade
    \/ \E s \in 1..Len(sessions) : TotalDecodes < HeaderMessages /\ OnMessage(s, input)
    \/ \E s \in 1..Len(sessions) : \E c \in 1..Len(sessions[s].conns) :
          OnTargetConnect(s, c)
    \/ \E s \in 1..Len(sessions) : OnClose(s)

SpecHeader ==
    InitHeader /\ [][NextHeader]_vars

\* the three uses of the frame codec on the buffer under study
DecodeFrame ==
    /\ result = NoResult
    /\ input \in FrameInputs
    /\ result' = [op |-> "decode", value |-> parseWebSocketFrame(input)]
    /\ UNCHANGED <<envUUID, running, connectionCount, responses, sessions, input>>

EncodeFrame ==
    /\ result = NoResult
    /\ input \in MessageInputs
    /\ result' = [op |-> "encode", value |-> constructWebSocketFrame(input)]
    /\ UNCHANGED <<envUUID, running, connectionCount, responses, sessions, input>>

RoundTripFrame ==
    /\ result = NoResult
    /\ input \in MessageInputs
    /\ result' = [op |-> "roundtrip", value |-> EncodeThenDecode(input)]
    /\ UNCHANGED <<envUUID, running, connectionCount, responses, sessions, input>>

InitFrame ==
    /\ envUUID \in {DashedUUID, PlainUUID}
    /\ running = TRUE
    /\ connectionCount = 0
    /\ responses = <<>>
    /\ sessions = <<>>
    /\ input \in FrameInputs \cup MessageInputs
    /\ result = NoResult

NextFrame ==
    \/ DecodeFrame
    \/ EncodeFrame
    \/ RoundTripFrame

SpecFrame ==
    InitFrame /\ [][NextFrame]_vars

NextRelay ==
    Step(RelayUpgrades, RelayMessages, RelayChunks, RelayChunkSet)

SpecRelay ==
    Init /\ [][NextRelay]_vars

-----------------------------------------------------------------------------
(* Claims *)

SessionIds ==
    1..Len(sessions)

ConnIds(s) ==
    1..Len(sessions[s].conns)

Unclosed ==
    {s \in SessionIds : Live(s)}

\* C1: under any interleaving of upgrades and close events, the number of
\* admitted sessions whose close event has not fired (connectionCount) never
\* exceeds MAX_CONNECTIONS, and an upgrade arriving at the ceiling is answered
\* 429 without creating a session or changing the counter.
C1_AdmissionCeiling ==
    /\ [](/\ connectionCount <= MAX_CONNECTIONS
          /\ Cardinality(Unclosed) <= MAX_CONNECTIONS)
    /\ [][(/\ connectionCount = MAX_CONNECTIONS
           /\ Len(responses') = Len(responses) + 1)
          => /\ responses' = Append(responses, 429)
             /\ sessions' = sessions
             /\ connectionCount' = connectionCount]_vars

\* the ceiling is reached and the upgrade that arrived there was refused
C1_Witness ==
    /\ connectionCount = MAX_CONNECTIONS
    /\ Len(sessions) = MAX_CONNECTIONS
    /\ responses # <<>>
    /\ responses[Len(responses)] = 429

\* C2 as stated: connectionCount equals the number of sessions that are
\* Handshaking or Relaying; a session in Closing is no longer counted.
C2_CountsHandshakingOrRelaying ==
    connectionCount =
      Cardinality({s \in SessionIds : Handshaking(s) \/ Relaying(s)})

\* C2 as amended: connectionCount equals the number of sessions that are
\* Handshaking, Relaying or Closing; a session that entered Closing stays
\* counted until its WebSocket 'close' event fires.
C2_CountsUntilCloseEvent ==
    connectionCount =
      Cardinality({s \in SessionIds : Handshaking(s) \/ Relaying(s) \/ Closing(s)})

\* a session is Closing after ws.close() and still holds its slot, next to a
\* session that was already released
C2_Witness ==
    \E s, t \in SessionIds :
        /\ Closing(s)
        /\ sessions[s].closeArgs # <<>>
        /\ Closed(t)
        /\ connectionCount = 1

\* C3: while a session is Relaying, every message arriving from the client is
\* forwarded unmodified and in arrival order to the open destination
\* connection, without being parsed.
C3_RelayingForwardsMessages ==
    [][\A s \in SessionIds : \A data \in Messages :
         (Relaying(s) /\ OnMessage(s, data))
         => /\ sessions'[s].decodes = sessions[s].decodes
            /\ \E c \in ConnIds(s) :
                 /\ sessions[s].conns[c].state = "open"
                 /\ sessions'[s].conns[c].written =
                      Append(sessions[s].conns[c].written, data)]_vars

\* C4: a session decodes the tunnel header once and opens at most one
\* destination connection, whatever messages it receives.
C4_OneDecodeOneConnection ==
    \A s \in SessionIds :
        /\ sessions[s].decodes <= 1
        /\ Len(sessions[s].conns) <= 1

\* C5: a Handshaking session that decodes a request with a wrong identity goes
\* to Closing with the auth-rejected reason and attempts no destination
\* connection, for that message or for any later message of the WebSocket.
C5_AuthRejectedNeverConnects ==
    [][\A s \in SessionIds :
         /\ \A data \in Messages :
              (/\ Handshaking(s)
               /\ OnMessage(s, data)
               /\ parseVLESSHeader(data).ok
               /\ parseVLESSHeader(data).uuid # envUUID)
              => /\ sessions'[s].ws = "CLOSING"
                 /\ sessions'[s].closeArgs = <<1008, "Invalid UUID">>
                 /\ sessions'[s].conns = sessions[s].conns
         /\ sessions[s].closeArgs = <<1008, "Invalid UUID">>
              => Len(sessions'[s].conns) = Len(sessions[s].conns)]_vars

\* C6: configured with 11111111-1111-4111-8111-111111111111, a session whose
\* first message carries these 16 identity bytes, IPv4 93.184.216.34, port 80
\* and a payload passes the identity check, opens a connection to
\* 93.184.216.34:80 and has the payload written to it.
C6_ConfiguredIdentityConnects ==
    [][\A s \in SessionIds :
         (/\ envUUID = DashedUUID
          /\ sessions[s].decodes = 0
          /\ OnMessage(s, HdrIPv4))
         => /\ sessions'[s].ws = "OPEN"
            /\ Len(sessions'[s].conns) = 1
            /\ sessions'[s].conns[1].host = ExampleHost
            /\ sessions'[s].conns[1].port = 80
            /\ sessions'[s].conns[1].rawData = ExamplePayload]_vars

\* C7: once the client channel of a session has closed, no destination
\* connection the session opened remains open, however many messages were
\* received before the close.
C7_CloseDestroysEveryConnection ==
    \A s \in SessionIds :
        Closed(s) =>
          \A c \in ConnIds(s) : sessions[s].conns[c].state \notin {"connecting", "open"}

\* C8: after a destination connection failed to connect, errored or ended, the
\* session has closed its client channel and makes no further connection
\* attempt.
C8_NoAttemptAfterDestinationFailure ==
    [][\A s \in SessionIds :
         (\E c \in ConnIds(s) : sessions[s].conns[c].state \in {"error", "closed"})
         => /\ sessions[s].ws # "OPEN"
            /\ Len(sessions'[s].conns) = Len(sessions[s].conns)]_vars

\* C9: a destination connection not established when CONFIG.TIMEOUT expires is
\* treated as a connect failure: the session is Closing (client channel
\* closed) and the pending connection is abandoned.
C9_ConnectTimeoutIsFailure ==
    \A s \in SessionIds : \A c \in ConnIds(s) :
        sessions[s].conns[c].timedOut
        => /\ sessions[s].ws # "OPEN"
           /\ sessions[s].conns[c].state \notin {"connecting", "open"}

\* an error is raised while serving session s
ErrorIn(s) ==
    \/ OnWsError(s)
    \/ \E c \in ConnIds(s) : OnTargetError(s, c)
    \/ \E data \in Messages : OnMessage(s, data) /\ ~parseVLESSHeader(data).ok

\* C10: every error raised while serving one session is confined to it: the
\* session's client channel is closed, the process keeps running, and the
\* other sessions and the admission counter are unaffected.
C10_ErrorsConfinedToSession ==
    [][\A s \in SessionIds :
         ErrorIn(s)
         => /\ running'
            /\ sessions'[s].ws # "OPEN"
            /\ connectionCount' = connectionCount
            /\ \A t \in SessionIds : t # s => sessions'[t] = sessions[t]]_vars

\* C11: for a session in Relaying, every chunk received from the destination
\* is sent to the client unmodified and after the chunks received before it
\* (FIFO in the destination-to-client direction).
C11_DestinationChunksInOrder ==
    [][\A s \in SessionIds : \A c \in ConnIds(s) : \A chunk \in RelayChunkSet :
         (Relaying(s) /\ OnTargetData(s, c, chunk))
         => sessions'[s].sent = Append(sessions[s].sent, chunk)]_vars

\* a Relaying session has forwarded two different chunks
C11_Witness ==
    \E s \in SessionIds :
        /\ Relaying(s)
        /\ Len(sessions[s].sent) = 2
        /\ sessions[s].sent[1] # sessions[s].sent[2]

\* C12: on every destination connection a session opens, the first bytes
\* written are the initial payload of the header that caused the connection,
\* and they are written on connect success, before anything else is relayed
\* to the destination or forwarded from it.
C12_FirstWriteIsOwnPayload ==
    \A s \in SessionIds : \A c \in ConnIds(s) :
        LET conn == sessions[s].conns[c]
        IN  /\ conn.written # <<>> => conn.written[1] = conn.rawData
            /\ conn.state = "open" => conn.written # <<>>

\* C13: with ceiling N = MAX_CONNECTIONS, the first N upgrades of an empty
\* server are admitted; an upgrade is refused exactly when N admitted sessions
\* have not had their close event, so the upgrade after N admissions is
\* refused and one close event lets exactly one more upgrade in.
C13_AdmissionFollowsCloseEvents ==
    /\ [](\A i \in 1..Len(responses) : i <= MAX_CONNECTIONS => responses[i] = 101)
    /\ [][Len(responses') = Len(responses) + 1
          => IF Cardinality(Unclosed) < MAX_CONNECTIONS
             THEN /\ responses' = Append(responses, 101)
                  /\ Len(sessions') = Len(sessions) + 1
             ELSE /\ responses' = Append(responses, 429)
                  /\ sessions' = sessions]_vars

\* N admissions, a refusal, one close event, one admission, a refusal
C13_Witness ==
    /\ Len(responses) = MAX_CONNECTIONS + 3
    /\ \A i \in 1..MAX_CONNECTIONS : responses[i] = 101
    /\ responses[MAX_CONNECTIONS + 1] = 429
    /\ responses[MAX_CONNECTIONS + 2] = 101
    /\ responses[MAX_CONNECTIONS + 3] = 429
    /\ Cardinality({s \in SessionIds : Closed(s)}) = 1

\* C14: for every address type in {1, 3, 4} and every host, port and payload,
\* parseVLESSHeader applied to the header built from them returns that host
\* text, that port and that payload.
C14_HeaderRoundTrip ==
    \A t \in HeaderCases :
        (input = BuildHeader(t) /\ result # NoResult)
        => /\ result.ok
           /\ result.targetHost = t.dest.host
           /\ result.targetPort = t.port
           /\ result.rawData = t.payload

\* C15: parseVLESSHeader fails with the header-too-short error for every input
\* shorter than 24 bytes, whatever byte 19 holds, and the session that
\* received it opens no destination connection and closes the client channel.
C15_ShortHeaderRejected ==
    /\ []((Len(input) < 24 /\ result # NoResult)
          => result = ParseError("Insufficient header length"))
    /\ [][\A s \in SessionIds :
            (Len(input) < 24 /\ OnMessage(s, input))
            => /\ sessions'[s].conns = sessions[s].conns
               /\ sessions'[s].ws = "CLOSING"
               /\ sessions[s].ws = "OPEN"
                    => sessions'[s].closeArgs = <<1011, "Processing Error">>]_vars

\* a 23-byte input naming a domain was decoded and delivered to a session
C15_Witness ==
    /\ Len(input) = 23
    /\ input[20] = 3
    /\ result = ParseError("Insufficient header length")
    /\ \E s \in SessionIds :
         /\ sessions[s].decodes = 1
         /\ sessions[s].ws = "CLOSING"
         /\ sessions[s].conns = <<>>

\* length of the address field that byte 19 announces
ImpliedAddressLength(buffer) ==
    CASE buffer[20] = 1 -> 4
      [] buffer[20] = 3 -> 1 + buffer[21]
      [] buffer[20] = 4 -> 16
      [] OTHER -> 0

Truncated(buffer) ==
    /\ Len(buffer) >= 24
    /\ buffer[20] \in {1, 3, 4}
    /\ Len(buffer) < 22 + ImpliedAddressLength(buffer)

\* C19: for an input of at least 24 bytes that is shorter than 22 bytes plus
\* the address length byte 19 implies, parseVLESSHeader raises an error and
\* the session opens no destination connection.
C19_TruncatedHeaderRejected ==
    /\ []((Truncated(input) /\ result # NoResult) => ~result.ok)
    /\ [][\A s \in SessionIds :
            (Truncated(input) /\ OnMessage(s, input))
            => sessions'[s].conns = sessions[s].conns]_vars


\* the codec operation op was applied to the buffer under study
Did(op) ==
    result # NoResult /\ result.op = op

\* a frame with the FIN bit and the mask bit set
FinalMasked(buffer) ==
    Len(buffer) >= 2 /\ buffer[1] >= 128 /\ buffer[2] >= 128

FrameOpcode(buffer) ==
    buffer[1] % 16

\* C16 as stated: decoding the frame produced by encoding a message of length
\* 0, 1, 125, 126 or 65535 returns the message.
C16_RoundTripIsIdentity ==
    Did("roundtrip") =>
        /\ result.value.ok
        /\ result.value.message = input

\* C16 as the code has it: for every text message of length 0, 1, 125, 126 or
\* 65535 the encoder produces a final text frame with the mask bit clear that
\* carries the message's bytes after its length field, and decoding that frame
\* fails with "Frames must be masked"; the message is never returned.
C16_EncodedFrameIsRefused ==
    /\ Did("encode") =>
          LET frame == result.value.frame
              header == IF Len(input) <= 125 THEN 2 ELSE 4
          IN  /\ result.value.ok
              /\ frame[1] = 129
              /\ frame[2] < 128
              /\ SubSeq(frame, header + 1, Len(frame)) = input
    /\ Did("roundtrip") => result.value = FrameError("Frames must be masked")

C16_Witness ==
    /\ Did("roundtrip")
    /\ Len(input) = 65535
    /\ ~result.value.ok

C18_ExtendedLengthDecoded ==
    (/\ Did("decode")
     /\ FinalMasked(input)
     /\ FrameOpcode(input) = 1
     /\ input[2] % 128 = 126) =>
        LET extended == input[3] * 256 + input[4]
            key == Slice(input, 4, 8)
            masked == Slice(input, 8, 8 + extended)
        IN  /\ result.value.ok
            /\ result.value.message = Utf8Decode(MaskWith(key, masked))

\* sessions whose WebSocket 'close' event fires in the step
ClosedInStep ==
    {s \in SessionIds : ~Closed(s) /\ sessions'[s].ws = "CLOSED"}

\* C20: connectionCount goes up by one exactly when a session is admitted and
\* down by one exactly when a session's WebSocket close event fires, which
\* happens at most once per session whatever rejection, error or close came
\* before; hence it is never negative and is 0 once all sessions have closed.
C20_CounterBalanced ==
    /\ [](/\ connectionCount >= 0
          /\ (\A s \in SessionIds : Closed(s)) => connectionCount = 0)
    /\ [][/\ Len(sessions') \in {Len(sessions), Len(sessions) + 1}
          /\ Cardinality(ClosedInStep) <= 1
          /\ \A s \in SessionIds : Closed(s) => sessions'[s].ws = "CLOSED"
          /\ connectionCount' = connectionCount
                                  + (Len(sessions') - Len(sessions))
                                  - Cardinality(ClosedInStep)]_vars

\* two sessions are over, one after a server-side ws.close() and one that
\* had a destination socket in error, and the counter is back at 0
C20_Witness ==
    /\ Len(sessions) >= 2
    /\ \A s \in SessionIds : Closed(s)
    /\ \E s \in SessionIds : sessions[s].closeArgs # <<>>
    /\ \E s \in SessionIds : \E c \in ConnIds(s) : sessions[s].conns[c].state = "error"
    /\ connectionCount = 0

=============================================================================
